---- MODULE Spec2Model ----
(***************************************************************************)
(* Layout-and-visibility engine of the infinite image canvas               *)
(* (lib/globalLayout.ts): the justified-row packer computeGlobalLayout     *)
(* with its process-wide cache, the uniform-grid index buildSpatialIndex   *)
(* and the world-wrapping query getVisibleImages.                          *)
(*                                                                         *)
(* Numbers.  The code computes in IEEE doubles.  Here an aspect ratio is   *)
(* the exact rational <<num, den>>, every natural width is carried as an   *)
(* integer multiple of 1/D (D the common denominator of the list), and     *)
(* Math.round(p/q) is floor((2p + q) / 2q).  Viewport coordinates are      *)
(* integers.  All values placed by the packer are integers in the code     *)
(* too (Math.round or integer subtraction).                                *)
(***************************************************************************)
EXTENDS Integers, Sequences, FiniteSets, TLC

WORLD_SIZE == 12000
TARGET_ROW_HEIGHT == 320
GAP == 30
CELL_SIZE == 400
\* the literal 100 of the "Safety limit" on imageIndex
SafetyFactor == 100
\* the literal 100 below which the remaining height drops the row
MinRowHeight == 100

\* number of world copies on either side of copy 0 the viewports are drawn from
MaxCopy == 1

-----------------------------------------------------------------------------
(* Inputs *)

a == [id |-> "a", aspectRatio |-> <<3, 2>>]
b == [id |-> "b", aspectRatio |-> <<1, 1>>]
c == [id |-> "c", aspectRatio |-> <<2, 1>>]
p == [id |-> "p", aspectRatio |-> <<20, 1>>]

\* image lists handed to the engine:
\*   <<p>>      fills the world, last row clamped to the remaining height
\*   <<a>>      the safety limit on imageIndex ends the packing early
\*   <<b, p>>   the last row is dropped (remaining height below the minimum)
\*   <<a, b, c>> aspect ratios 1.5, 1.0, 2.0
ImageLists == { <<p>>, <<a>>, <<b, p>>, <<a, b, c>> }

\* Malformed input: an image with a negative aspect ratio (-0.5), the empty
\* list and a list holding the negative image
neg == [id |-> "neg", aspectRatio |-> <<-1, 2>>]
MalformedLists == { << >>, <<c, neg>> }

\* a list with positive aspect ratios far apart: 2.0 and a sliver of 0.0625
sliver == [id |-> "sliver", aspectRatio |-> <<1, 16>>]
ExtremeLists == { <<c, sliver>> }

\* viewport shapes relative to the origin of a world copy
ViewShapes ==
  { [dx |-> -50,   dy |-> -50, w |-> 200,  h |-> 200],   \* straddles both seams
    [dx |-> -50,   dy |-> 5150, w |-> 100, h |-> 100],   \* straddles the X seam
    [dx |-> 11000, dy |-> 0,   w |-> 1000, h |-> 500],   \* right edge on the seam
    [dx |-> 0,     dy |-> 0,   w |-> 800,  h |-> 900],   \* inside one copy
    [dx |-> 100,   dy |-> 100, w |-> 0,    h |-> 200],   \* zero width
    [dx |-> 100,   dy |-> 100, w |-> 200,  h |-> -50],   \* negative height
    [dx |-> 6000,  dy |-> 299, w |-> 15,   h |-> 30] }   \* inside, touching edges

\* the viewport shapes placed at the world copies (k, k), k in copies
ViewportsAt(copies) ==
  { [viewX |-> k * WORLD_SIZE + s.dx, viewY |-> k * WORLD_SIZE + s.dy,
     viewWidth |-> s.w, viewHeight |-> s.h] : k \in copies, s \in ViewShapes }

Viewports == ViewportsAt((-MaxCopy)..MaxCopy)

NoView == [viewX |-> 0, viewY |-> 0, viewWidth |-> 0, viewHeight |-> 0]

-----------------------------------------------------------------------------
(* Arithmetic *)

RECURSIVE Gcd(_, _)
Gcd(m, n) == IF n = 0 THEN m ELSE Gcd(n, m % n)

Lcm(m, n) == (m \div Gcd(m, n)) * n

\* common denominator of the aspect ratios of a list
RECURSIVE CommonDen(_, _)
CommonDen(allImages, i) ==
  IF i > Len(allImages) THEN 1
  ELSE Lcm(allImages[i].aspectRatio[2], CommonDen(allImages, i + 1))

\* Math.round(num / den) for den > 0: halves round up
Round(num, den) == (2 * num + den) \div (2 * den)

\* division that truncates toward zero, as (n / d) | 0 does
FloorTowardZero(n, d) == IF n >= 0 THEN n \div d ELSE -((-n) \div d)

\* Math.floor(n / d) for d > 0
Floor(n, d) == n \div d

Max(m, n) == IF m >= n THEN m ELSE n
Min(m, n) == IF m <= n THEN m ELSE n

RECURSIVE Flatten(_)
Flatten(ss) == IF ss = << >> THEN << >> ELSE Head(ss) \o Flatten(Tail(ss))

\* the sequence lo, lo+1, ..., hi of a for loop (empty when hi < lo)
Range(lo, hi) == [i \in 1..(hi - lo + 1) |-> lo + i - 1]

-----------------------------------------------------------------------------
(* computeGlobalLayout: the packer *)

\* naturalWidth = TARGET_ROW_HEIGHT * image.aspectRatio, in units of 1/D
NaturalWidth(image, D) ==
  TARGET_ROW_HEIGHT * image.aspectRatio[1] * (D \div image.aspectRatio[2])

\* CursorInBound without the safety limit
CursorUnbounded(imageIndex, allImages) == TRUE

\* the test of the inner while loop: the cursor is below its safety limit
CursorInBound(imageIndex, allImages) == imageIndex < Len(allImages) * SafetyFactor

\* RowIsFull without the minimum of two images
RowIsFullAnyLength(widthIfAdded, D, rowImages) == widthIfAdded > WORLD_SIZE * D

\* the break test of the inner loop (widths in units of 1/D)
RowIsFull(widthIfAdded, D, rowImages) ==
  widthIfAdded > WORLD_SIZE * D /\ Len(rowImages) >= 2

\* the inner while loop: collect the images of one row
RECURSIVE CollectRow(_, _, _, _, _)
CollectRow(allImages, D, imageIndex, rowImages, totalNaturalWidth) ==
  IF ~CursorInBound(imageIndex, allImages)
  THEN [rowImages |-> rowImages, totalNaturalWidth |-> totalNaturalWidth,
        imageIndex |-> imageIndex]
  ELSE LET image == allImages[(imageIndex % Len(allImages)) + 1]
           naturalWidth == NaturalWidth(image, D)
           gapsIfAdded == Len(rowImages) * GAP
           widthIfAdded == totalNaturalWidth + naturalWidth + gapsIfAdded * D
       IN IF RowIsFull(widthIfAdded, D, rowImages)
          THEN [rowImages |-> rowImages, totalNaturalWidth |-> totalNaturalWidth,
                imageIndex |-> imageIndex]
          ELSE CollectRow(allImages, D, imageIndex + 1,
                          Append(rowImages, [image |-> image, naturalWidth |-> naturalWidth]),
                          totalNaturalWidth + naturalWidth)

\* ScaledRowHeight that rounds down
ScaledRowHeightFloor(availableForImages, totalNaturalWidth, D) ==
  (TARGET_ROW_HEIGHT * availableForImages * D) \div totalNaturalWidth

\* rowHeight = Math.round(TARGET_ROW_HEIGHT * scale),
\* scale = availableForImages / totalNaturalWidth
ScaledRowHeight(availableForImages, totalNaturalWidth, D) ==
  Round(TARGET_ROW_HEIGHT * availableForImages * D, totalNaturalWidth)

\* ImageWidth without the adjustment of the last image
ImageWidthAllScaled(rowImages, i, currentX, availableForImages, totalNaturalWidth) ==
  Round(rowImages[i].naturalWidth * availableForImages, totalNaturalWidth)

\* width of the i-th image of a row
ImageWidth(rowImages, i, currentX, availableForImages, totalNaturalWidth) ==
  IF i = Len(rowImages)
  THEN WORLD_SIZE - currentX - GAP
  ELSE Round(rowImages[i].naturalWidth * availableForImages, totalNaturalWidth)

\* AdvanceX without the gap
AdvanceXNoGap(currentX, width) == currentX + width

\* AdvanceX with the gap subtracted instead of added
AdvanceXGapSubtracted(currentX, width) == currentX + width - GAP

\* the horizontal cursor after an image
AdvanceX(currentX, width) == currentX + width + GAP

\* the for loop that places the images of a row
RECURSIVE PlaceRow(_, _, _, _, _, _, _)
PlaceRow(rowImages, availableForImages, totalNaturalWidth, rowHeight, currentY, i, currentX) ==
  IF i > Len(rowImages) THEN << >>
  ELSE LET item == rowImages[i]
           width == ImageWidth(rowImages, i, currentX, availableForImages, totalNaturalWidth)
       IN << [id |-> item.image.id, x |-> currentX, y |-> currentY,
              width |-> width, height |-> rowHeight] >>
          \o PlaceRow(rowImages, availableForImages, totalNaturalWidth, rowHeight,
                      currentY, i + 1, AdvanceX(currentX, width))

\* RemainingHeight that leaves no gap at the bottom of the world
RemainingHeightNoGap(currentY) == WORLD_SIZE - currentY

\* remainingHeight = WORLD_SIZE - currentY - GAP
RemainingHeight(currentY) == WORLD_SIZE - currentY - GAP

\* ClampRowHeight without the clamp
ClampRowHeightOff(scaled, remainingHeight) == scaled

\* a row taller than the remaining height is scaled to fit
ClampRowHeight(scaled, remainingHeight) ==
  IF scaled > remainingHeight THEN remainingHeight ELSE scaled

\* AdvanceY that leaves the cursor where it is
AdvanceYStuck(currentY, rowHeight) == currentY

\* the vertical cursor after a row
AdvanceY(currentY, rowHeight) == currentY + rowHeight + GAP

\* the outer while loop: one row per round
RECURSIVE PackRows(_, _, _, _, _)
PackRows(allImages, D, currentY, imageIndex, placedImages) ==
  IF ~(currentY < WORLD_SIZE) THEN placedImages
  ELSE LET row == CollectRow(allImages, D, imageIndex, << >>, 0)
           rowImages == row.rowImages
           numGaps == Len(rowImages) - 1
           availableForImages == WORLD_SIZE - numGaps * GAP
           scaled == ScaledRowHeight(availableForImages, row.totalNaturalWidth, D)
           remainingHeight == RemainingHeight(currentY)
           rowHeight == ClampRowHeight(scaled, remainingHeight)
       IN IF Len(rowImages) = 0 THEN placedImages
          ELSE IF scaled > remainingHeight /\ remainingHeight < MinRowHeight
               THEN placedImages
               ELSE PackRows(allImages, D, AdvanceY(currentY, rowHeight), row.imageIndex,
                             placedImages \o PlaceRow(rowImages, availableForImages,
                                                      row.totalNaturalWidth, rowHeight,
                                                      currentY, 1, 0))

\* the layout computed on a cache miss
Pack(allImages) == PackRows(allImages, CommonDen(allImages, 1), 0, 0, << >>)

-----------------------------------------------------------------------------
(* buildSpatialIndex *)

\* CellsOf that registers an image under the cell of its top-left corner only
CellsOfCorner(img) == { <<Floor(img.x, CELL_SIZE), Floor(img.y, CELL_SIZE)>> }

\* the cells an image is pushed under: cx in minCellX..maxCellX, cy in
\* minCellY..maxCellY.  The key `${cx},${cy}` is modelled as the pair <<cx, cy>>.
CellsOf(img) ==
  (Floor(img.x, CELL_SIZE)..Floor(img.x + img.width, CELL_SIZE))
    \X (Floor(img.y, CELL_SIZE)..Floor(img.y + img.height, CELL_SIZE))

\* img is pushed under key
CoversCell(img, key) ==
  /\ Floor(img.x, CELL_SIZE) <= key[1]
  /\ key[1] <= Floor(img.x + img.width, CELL_SIZE)
  /\ Floor(img.y, CELL_SIZE) <= key[2]
  /\ key[2] <= Floor(img.y + img.height, CELL_SIZE)

\* Map from cell key to the images pushed under it.  The loop runs over the
\* images in order and pushes each image once under each of its keys, so a
\* bucket holds the images covering its cell, in layout order.
buildSpatialIndex(images) ==
  LET keys == UNION { CellsOf(images[i]) : i \in DOMAIN images }
  IN [key \in keys |-> SelectSeq(images, LAMBDA img : CoversCell(img, key))]

-----------------------------------------------------------------------------
(* The module-level cache and computeGlobalLayout *)

Null == [isNull |-> TRUE]
NonNull(v) == [isNull |-> FALSE, value |-> v]

\* CacheHit that never takes the cached layout
CacheHitNever(layoutRef, imageCount, allImages) == FALSE

\* CacheHit that takes any cached layout, whatever its image count
CacheHitAnyCount(layoutRef, imageCount, allImages) == ~layoutRef.isNull

\* the cache hit test of computeGlobalLayout
CacheHit(layoutRef, imageCount, allImages) ==
  ~layoutRef.isNull /\ imageCount = Len(allImages)

\* Pack and buildSpatialIndex depend on the list alone: their values for the
\* input lists, evaluated once
Built ==
  { [allImages |-> l, placedImages |-> Pack(l), index |-> buildSpatialIndex(Pack(l))] :
      l \in ImageLists \cup MalformedLists \cup ExtremeLists }

\* lines 43-119 for one of the input lists: the fresh layout and its index
Rebuild(allImages) == CHOOSE t \in Built : t.allImages = allImages

\* computeGlobalLayout that does not rebuild the index with the layout
computeGlobalLayoutStaleIndex(layoutRef, imageCount, indexRef, allImages) ==
  IF CacheHit(layoutRef, imageCount, allImages)
  THEN [ret |-> layoutRef.value, hit |-> TRUE, cachedLayout |-> layoutRef,
        cachedImageCount |-> imageCount, spatialIndex |-> indexRef]
  ELSE [ret |-> Rebuild(allImages).placedImages, hit |-> FALSE,
        cachedLayout |-> NonNull(Rebuild(allImages).placedImages),
        cachedImageCount |-> Len(allImages),
        spatialIndex |-> indexRef]

\* computeGlobalLayout: the returned layout and the module state it leaves
computeGlobalLayout(layoutRef, imageCount, indexRef, allImages) ==
  IF CacheHit(layoutRef, imageCount, allImages)
  THEN [ret |-> layoutRef.value, hit |-> TRUE, cachedLayout |-> layoutRef,
        cachedImageCount |-> imageCount, spatialIndex |-> indexRef]
  ELSE [ret |-> Rebuild(allImages).placedImages, hit |-> FALSE,
        cachedLayout |-> NonNull(Rebuild(allImages).placedImages),
        cachedImageCount |-> Len(allImages),
        spatialIndex |-> NonNull(Rebuild(allImages).index)]

-----------------------------------------------------------------------------
(* getVisibleImages *)

\* BoundsCheck that rejects images whose edge only touches the viewport
BoundsCheckStrict(img, renderX, renderY, view) ==
  ~ \/ renderX + img.width <= view.viewX
    \/ renderX >= view.viewX + view.viewWidth
    \/ renderY + img.height <= view.viewY
    \/ renderY >= view.viewY + view.viewHeight

\* the bounds check lets the image through (edges touching pass)
BoundsCheck(img, renderX, renderY, view) ==
  ~ \/ renderX + img.width < view.viewX
    \/ renderX > view.viewX + view.viewWidth
    \/ renderY + img.height < view.viewY
    \/ renderY > view.viewY + view.viewHeight

\* the images of one cell that pass the bounds check, for world copy (wx, wy)
CellHits(index, cx, cy, wx, wy, view) ==
  IF <<cx, cy>> \notin DOMAIN index THEN << >>
  ELSE LET cellImages == index[<<cx, cy>>]
           hits == [i \in 1..Len(cellImages) |->
                      [image |-> cellImages[i],
                       renderX |-> cellImages[i].x + wx * WORLD_SIZE,
                       renderY |-> cellImages[i].y + wy * WORLD_SIZE,
                       wx |-> wx, wy |-> wy]]
       IN SelectSeq(hits, LAMBDA e : BoundsCheck(e.image, e.renderX, e.renderY, view))

\* SkipCopy that keeps a copy whose clipped viewport is a line or a point
SkipCopyStrict(localMinX, localMaxX, localMinY, localMaxY) ==
  localMinX > localMaxX \/ localMinY > localMaxY

\* the copy is skipped when the clipped viewport is empty on either axis
SkipCopy(localMinX, localMaxX, localMinY, localMaxY) ==
  localMinX >= localMaxX \/ localMinY >= localMaxY

\* the body of the world-copy loops for copy (wx, wy)
CopyHits(index, wx, wy, view) ==
  LET worldOffsetX == wx * WORLD_SIZE
      worldOffsetY == wy * WORLD_SIZE
      localMinX == Max(0, view.viewX - worldOffsetX)
      localMaxX == Min(WORLD_SIZE, view.viewX + view.viewWidth - worldOffsetX)
      localMinY == Max(0, view.viewY - worldOffsetY)
      localMaxY == Min(WORLD_SIZE, view.viewY + view.viewHeight - worldOffsetY)
      cellsX == Range(Floor(localMinX, CELL_SIZE), Floor(localMaxX, CELL_SIZE))
      cellsY == Range(Floor(localMinY, CELL_SIZE), Floor(localMaxY, CELL_SIZE))
  IN IF SkipCopy(localMinX, localMaxX, localMinY, localMaxY) THEN << >>
     ELSE Flatten([iy \in DOMAIN cellsY |->
            Flatten([ix \in DOMAIN cellsX |->
              CellHits(index, cellsX[ix], cellsY[iy], wx, wy, view)])])

\* every hit of every visited copy, in the order the loops reach them
AllHits(index, view) ==
  LET worldsX == Range(Floor(view.viewX, WORLD_SIZE),
                       Floor(view.viewX + view.viewWidth, WORLD_SIZE))
      worldsY == Range(Floor(view.viewY, WORLD_SIZE),
                       Floor(view.viewY + view.viewHeight, WORLD_SIZE))
  IN Flatten([iy \in DOMAIN worldsY |->
       Flatten([ix \in DOMAIN worldsX |->
         CopyHits(index, worldsX[ix], worldsY[iy], view)])])

\* SeenKey without img.y
SeenKeyNoY(e) == <<e.image.x, e.wx, e.wy>>

\* the key `${img.x},${img.y},${wx},${wy}` as a tuple
SeenKey(e) == <<e.image.x, e.image.y, e.wx, e.wy>>

\* Dedup without the seenKeys test: every hit is pushed
DedupNone(hits, seenKeys) ==
  [i \in DOMAIN hits |->
     [image |-> hits[i].image, renderX |-> hits[i].renderX, renderY |-> hits[i].renderY]]

\* a hit is pushed unless its key was seen
RECURSIVE Dedup(_, _)
Dedup(hits, seenKeys) ==
  IF hits = << >> THEN << >>
  ELSE LET e == Head(hits)
           key == SeenKey(e)
       IN IF key \in seenKeys
          THEN Dedup(Tail(hits), seenKeys)
          ELSE << [image |-> e.image, renderX |-> e.renderX, renderY |-> e.renderY] >>
               \o Dedup(Tail(hits), seenKeys \cup {key})

\* the loops of getVisibleImages over a given index
VisibleIn(index, view) == Dedup(AllHits(index, view), {})

\* getVisibleImages after its call of computeGlobalLayout returned got
QueryAfter(got, view) ==
  [results |-> VisibleIn(IF got.spatialIndex.isNull
                         THEN buildSpatialIndex(got.ret)
                         ELSE got.spatialIndex.value, view),
   layout |-> got.ret,
   hit |-> got.hit,
   cachedLayout |-> got.cachedLayout,
   cachedImageCount |-> got.cachedImageCount,
   spatialIndex |-> IF got.spatialIndex.isNull
                    THEN NonNull(buildSpatialIndex(got.ret))
                    ELSE got.spatialIndex]

\* getVisibleImages: results, the layout it got and the module state it leaves
getVisibleImages(layoutRef, imageCount, indexRef, view, allImages) ==
  QueryAfter(computeGlobalLayout(layoutRef, imageCount, indexRef, allImages), view)

-----------------------------------------------------------------------------
(* components/Canvas/Canvas.tsx: the handlers of the Canvas component as
   functions of st = [canvas |-> the component's refs and React state,
                      browser |-> clock, animation-frame callbacks, pointer].
   Lengths on the pointer (clientX, clientY) are in px; pan positions are in
   units of 1/1000000 px and velocities in units of 1/1000 px/s, so that
   v * 0.016 and deltaX * dragSmoothing are whole numbers of pan units.
   A ref holding null is 0: no handle is 0 and both are falsy. *)

\* decay = 0.95, in percent
decay == 95
\* minVelocity = 0.5 px/s
minVelocity == 500
\* the velocity a pointer-up needs to exceed for inertia: 50 px/s
inertiaThreshold == 50000
\* the distance a drag needs to exceed to count as a drag: 5 px
dragThreshold == 5

Abs(v) == IF v >= 0 THEN v ELSE -v

Point(x, y) == [x |-> x, y |-> y]

\* the component after its first render, nothing scheduled
CanvasMounted ==
  [panPosition |-> Point(0, 0), lightboxImage |-> Null, isGrabbing |-> FALSE,
   panRef |-> Point(0, 0), isDragging |-> FALSE, hasDragged |-> FALSE,
   lastPos |-> Point(0, 0), dragStartPos |-> [x |-> 0, y |-> 0, time |-> 0],
   velocity |-> Point(0, 0), lastTime |-> 0,
   animationFrameRef |-> 0, syncStateRef |-> 0]

\* the browser at that time: now is the last reading of Date.now(), handle the
\* last handle requestAnimationFrame returned, callbacks the list of animation
\* frame callbacks; downs, moves and loopFrames count pointer-downs, moves of
\* a drag and frames of the running inertia loop; downAt, released and farMove
\* record where the pointer last went down, whether it went up since, and
\* whether it moved farther than 5 px from there in between
BrowserLoaded ==
  [now |-> 0, handle |-> 0, callbacks |-> << >>,
   downs |-> 0, moves |-> 0, loopFrames |-> 0,
   downAt |-> Point(0, 0), released |-> TRUE, farMove |-> FALSE]

\* requestAnimationFrame(fn): the handle returned is st'.browser.handle
requestAnimationFrame(st, fn, vx, vy) ==
  [st EXCEPT !.browser.handle = @ + 1,
             !.browser.callbacks =
                Append(@, [handle |-> st.browser.handle + 1, fn |-> fn,
                           vx |-> vx, vy |-> vy])]

cancelAnimationFrame(st, handle) ==
  [st EXCEPT !.browser.callbacks = SelectSeq(@, LAMBDA cb : cb.handle # handle)]

updateTransform(st, x, y) == [st EXCEPT !.canvas.panRef = Point(x, y)]

\* syncState that never requests a frame
syncStateDropped(st) == st

syncState(st) ==
  IF st.canvas.syncStateRef # 0 THEN st
  ELSE LET r == requestAnimationFrame(st, "sync", 0, 0)
       IN [r EXCEPT !.canvas.syncStateRef = r.browser.handle]

\* the callback syncState hands to requestAnimationFrame
syncCallback(st) ==
  [st EXCEPT !.canvas.panPosition = st.canvas.panRef,
             !.canvas.syncStateRef = 0]

\* Decay without friction
DecayNone(v) == v

\* v *= decay, rounded toward zero to the velocity unit
Decay(v) == IF v >= 0 THEN (v * decay) \div 100 ELSE -(((-v) * decay) \div 100)

\* tick of startInertia; vx, vy are the variables of its closure
tick(st, vx0, vy0) ==
  LET vx == Decay(vx0)
      vy == Decay(vy0)
  IN IF Abs(vx) < minVelocity /\ Abs(vy) < minVelocity
     THEN syncState([st EXCEPT !.canvas.animationFrameRef = 0])
     ELSE LET moved == syncState(updateTransform(st, st.canvas.panRef.x + vx * 16,
                                                     st.canvas.panRef.y + vy * 16))
              r == requestAnimationFrame(moved, "tick", vx, vy)
          IN [r EXCEPT !.canvas.animationFrameRef = r.browser.handle]

startInertia(st, velX, velY) ==
  LET r == requestAnimationFrame(st, "tick", velX, velY)
  IN [r EXCEPT !.canvas.animationFrameRef = r.browser.handle]

\* stopInertia that leaves the requested frame in place
stopInertiaNoCancel(st) == [st EXCEPT !.canvas.animationFrameRef = 0]

stopInertia(st) ==
  IF st.canvas.animationFrameRef # 0
  THEN [cancelAnimationFrame(st, st.canvas.animationFrameRef)
          EXCEPT !.canvas.animationFrameRef = 0]
  ELSE st

handlePointerDown(st, e) ==
  LET stopped == stopInertia(st)
      now == st.browser.now
  IN [stopped EXCEPT !.canvas.isDragging = TRUE,
                     !.canvas.isGrabbing = TRUE,
                     !.canvas.hasDragged = FALSE,
                     !.canvas.dragStartPos = [x |-> e.clientX, y |-> e.clientY, time |-> now],
                     !.canvas.lastPos = Point(e.clientX, e.clientY),
                     !.canvas.lastTime = now,
                     !.canvas.velocity = Point(0, 0)]

\* Dragged that counts a distance of exactly 5 px as a drag
DraggedInclusive(totalDrag) == totalDrag >= dragThreshold

\* the test totalDrag > 5
Dragged(totalDrag) == totalDrag > dragThreshold

handlePointerMove(st, e) ==
  IF ~st.canvas.isDragging THEN st
  ELSE LET cv == st.canvas
           deltaX == e.clientX - cv.lastPos.x
           deltaY == e.clientY - cv.lastPos.y
           totalDrag == Abs(e.clientX - cv.dragStartPos.x) + Abs(e.clientY - cv.dragStartPos.y)
           now == st.browser.now
           dt == now - cv.lastTime
           \* (delta / dt) * 1000 px/s
           newVelX == IF dt > 0 THEN (deltaX * 1000000) \div dt ELSE 0
           newVelY == IF dt > 0 THEN (deltaY * 1000000) \div dt ELSE 0
           dragDuration == now - cv.dragStartPos.time
           \* dragSmoothing = 0.2 + min(1, dragDuration / 200) * 0.35, in millionths
           dragSmoothing == 200000 + 1750 * Min(200, dragDuration)
           newX == cv.panRef.x + deltaX * dragSmoothing
           newY == cv.panRef.y + deltaY * dragSmoothing
           handled ==
             [st EXCEPT !.canvas.hasDragged = IF Dragged(totalDrag) THEN TRUE ELSE @,
                        !.canvas.velocity =
                           IF dt > 0
                           THEN Point((cv.velocity.x + newVelX) \div 2,
                                      (cv.velocity.y + newVelY) \div 2)
                           ELSE @,
                        !.canvas.lastTime = now,
                        !.canvas.lastPos = Point(e.clientX, e.clientY)]
       IN syncState(updateTransform(handled, newX, newY))

\* the test Math.abs(velX) > 50 || Math.abs(velY) > 50
InertiaStarts(velX, velY) ==
  Abs(velX) > inertiaThreshold \/ Abs(velY) > inertiaThreshold

handlePointerUp(st) ==
  IF ~st.canvas.isDragging THEN st
  ELSE LET released == [st EXCEPT !.canvas.isDragging = FALSE,
                                  !.canvas.isGrabbing = FALSE]
           velX == st.canvas.velocity.x
           velY == st.canvas.velocity.y
       IN IF InertiaStarts(velX, velY)
          THEN startInertia(released, velX, velY)
          ELSE released

handleImageClick(st, imageId, images) ==
  IF st.canvas.hasDragged THEN st
  ELSE LET found == { i \in DOMAIN images : images[i].id = imageId }
       IN IF found = {} THEN st
          ELSE [st EXCEPT !.canvas.lightboxImage =
                  NonNull(images[CHOOSE i \in found : \A k \in found : i <= k])]

closeLightbox(st) == [st EXCEPT !.canvas.lightboxImage = Null]

\* the browser invokes a callback it took off the list
Invoke(st, cb) ==
  IF cb.fn = "sync" THEN syncCallback(st) ELSE tick(st, cb.vx, cb.vy)

\* an animation frame: the callbacks on the list when the frame starts are
\* invoked in the order they were requested, each unless cancelled meanwhile;
\* callbacks requested during the frame wait for the next one
RECURSIVE RunCallbacks(_, _)
RunCallbacks(st, pending) ==
  IF pending = << >> THEN st
  ELSE LET cb == Head(pending)
       IN IF \E i \in DOMAIN st.browser.callbacks : st.browser.callbacks[i].handle = cb.handle
          THEN RunCallbacks(Invoke(cancelAnimationFrame(st, cb.handle), cb), Tail(pending))
          ELSE RunCallbacks(st, Tail(pending))

RunFrame(st) == RunCallbacks(st, st.browser.callbacks)

-----------------------------------------------------------------------------
(* The state machine: the module state and the calls made on it *)

VARIABLES
  cachedLayout,      \* let cachedLayout: PlacedImage[] | null
  cachedImageCount,  \* let cachedImageCount
  spatialIndex,      \* let spatialIndex: Map | null
  call,              \* the last call: its arguments, whether the cache was hit,
                     \* the layout computeGlobalLayout returned, the results
                     \* and whether the call threw
  first,             \* the first layout request: its list and the layout returned
  run,               \* the locals of a running computeGlobalLayout (PackSpec)
  pan,               \* the first query of a panning session (PanSpec)
  canvas,            \* the refs and the React state of the Canvas component
  browser            \* clock, animation frame callbacks and pointer history

vars == <<cachedLayout, cachedImageCount, spatialIndex, call, first, run, pan,
          canvas, browser>>

\* No statement of computeGlobalLayout, buildSpatialIndex or getVisibleImages
\* throws: there is no throw statement in the module, and on an array of
\* ImageMeta and numeric viewport arguments every property access, Map
\* operation and arithmetic expression has a value.
Throws(allImages) == FALSE

\* the module state when the module is loaded, before any call
ModuleLoaded ==
  /\ cachedLayout = Null
  /\ cachedImageCount = 0
  /\ spatialIndex = Null
  /\ call = [op |-> "none", allImages |-> << >>, view |-> NoView, hit |-> FALSE,
             layout |-> << >>, results |-> << >>, threw |-> FALSE]
  /\ first = Null

\* no call of computeGlobalLayout is being stepped through
NotRunning == [pc |-> "idle"]

Init ==
  /\ ModuleLoaded
  /\ run = NotRunning
  /\ pan = Null
  /\ canvas = CanvasMounted
  /\ browser = BrowserLoaded

Remember(allImages, layout) ==
  IF first.isNull THEN NonNull([allImages |-> allImages, layout |-> layout]) ELSE first

\* the call computeGlobalLayout(allImages): the module state it leaves
CallComputeGlobalLayout(allImages) ==
  \E r \in { computeGlobalLayout(cachedLayout, cachedImageCount, spatialIndex, allImages) } :
    /\ cachedLayout' = r.cachedLayout
    /\ cachedImageCount' = r.cachedImageCount
    /\ spatialIndex' = r.spatialIndex
    /\ call' = [op |-> "computeGlobalLayout", allImages |-> allImages,
                view |-> NoView, hit |-> r.hit, layout |-> r.ret,
                results |-> << >>, threw |-> Throws(allImages)]

\* the call getVisibleImages(viewX, viewY, viewWidth, viewHeight, allImages)
CallGetVisibleImages(view, allImages) ==
  \E r \in { getVisibleImages(cachedLayout, cachedImageCount, spatialIndex,
                              view, allImages) } :
    /\ cachedLayout' = r.cachedLayout
    /\ cachedImageCount' = r.cachedImageCount
    /\ spatialIndex' = r.spatialIndex
    /\ call' = [op |-> "getVisibleImages", allImages |-> allImages,
                view |-> view, hit |-> r.hit, layout |-> r.layout,
                results |-> r.results, threw |-> Throws(allImages)]

\* a caller invokes computeGlobalLayout(allImages)
ComputeGlobalLayout ==
  \E allImages \in ImageLists :
    /\ CallComputeGlobalLayout(allImages)
    /\ first' = Remember(allImages, call'.layout)
    /\ UNCHANGED <<run, pan, canvas, browser>>

\* a caller invokes getVisibleImages(viewX, viewY, viewWidth, viewHeight, allImages)
GetVisibleImages ==
  \E allImages \in ImageLists :
    \E view \in Viewports :
      /\ CallGetVisibleImages(view, allImages)
      /\ first' = Remember(allImages, call'.layout)
      /\ UNCHANGED <<run, pan, canvas, browser>>

Next == ComputeGlobalLayout \/ GetVisibleImages

Spec == Init /\ [][Next]_vars

\* The same module called with malformed lists too: the malformed lists and a
\* well-formed list as long as one of them
ListsWithMalformed == MalformedLists \cup { <<b, p>> }

ComputeGlobalLayoutMalformed ==
  \E allImages \in ListsWithMalformed :
    /\ CallComputeGlobalLayout(allImages)
    /\ first' = Remember(allImages, call'.layout)
    /\ UNCHANGED <<run, pan, canvas, browser>>

GetVisibleImagesMalformed ==
  \E allImages \in ListsWithMalformed :
    \E view \in Viewports :
      /\ CallGetVisibleImages(view, allImages)
      /\ first' = Remember(allImages, call'.layout)
      /\ UNCHANGED <<run, pan, canvas, browser>>

NextMalformed == ComputeGlobalLayoutMalformed \/ GetVisibleImagesMalformed

SpecMalformed == Init /\ [][NextMalformed]_vars

-----------------------------------------------------------------------------
(* The engine called with lists whose positive aspect ratios are far apart *)

ListsWithExtreme == ExtremeLists \cup { <<p>> }

ComputeGlobalLayoutExtreme ==
  \E allImages \in ListsWithExtreme :
    /\ CallComputeGlobalLayout(allImages)
    /\ first' = Remember(allImages, call'.layout)
    /\ UNCHANGED <<run, pan, canvas, browser>>

GetVisibleImagesExtreme ==
  \E allImages \in ListsWithExtreme :
    \E view \in Viewports :
      /\ CallGetVisibleImages(view, allImages)
      /\ first' = Remember(allImages, call'.layout)
      /\ UNCHANGED <<run, pan, canvas, browser>>

NextExtreme == ComputeGlobalLayoutExtreme \/ GetVisibleImagesExtreme

SpecExtreme == Init /\ [][NextExtreme]_vars

-----------------------------------------------------------------------------
(* scripts/prerender-html.ts: the build-time script packs the manifest with
   its own copy of the packer, selects the images of an 800 x 900 window at
   the origin and writes them as static HTML; the application then mounts
   with pan (0, 0).  run holds the frame of generatePrerender. *)

prerender_WORLD_SIZE == 12000
prerender_TARGET_ROW_HEIGHT == 320
prerender_GAP == 30
IMAGES_TO_PRERENDER == 10

PrerenderLists == ImageLists \cup ExtremeLists

\* the window generatePrerender selects for, as a viewport of the application
PrerenderView == [viewX |-> 0, viewY |-> 0, viewWidth |-> 800, viewHeight |-> 900]

\* the script's inner while loop (widths in units of 1/D)
RECURSIVE prerender_CollectRow(_, _, _, _, _)
prerender_CollectRow(allImages, D, imageIndex, rowImages, totalNaturalWidth) ==
  IF ~(imageIndex < Len(allImages) * 100)
  THEN [rowImages |-> rowImages, totalNaturalWidth |-> totalNaturalWidth,
        imageIndex |-> imageIndex]
  ELSE LET image == allImages[(imageIndex % Len(allImages)) + 1]
           naturalWidth == prerender_TARGET_ROW_HEIGHT * image.aspectRatio[1]
                             * (D \div image.aspectRatio[2])
           gapsIfAdded == Len(rowImages) * prerender_GAP
           widthIfAdded == totalNaturalWidth + naturalWidth + gapsIfAdded * D
       IN IF widthIfAdded > prerender_WORLD_SIZE * D /\ Len(rowImages) >= 2
          THEN [rowImages |-> rowImages, totalNaturalWidth |-> totalNaturalWidth,
                imageIndex |-> imageIndex]
          ELSE prerender_CollectRow(allImages, D, imageIndex + 1,
                 Append(rowImages, [image |-> image, naturalWidth |-> naturalWidth]),
                 totalNaturalWidth + naturalWidth)

\* prerender_ScaledRowHeight that rounds down
prerender_ScaledRowHeightFloor(availableForImages, totalNaturalWidth, D) ==
  (prerender_TARGET_ROW_HEIGHT * availableForImages * D) \div totalNaturalWidth

\* the script's rowHeight = Math.round(TARGET_ROW_HEIGHT * scale)
prerender_ScaledRowHeight(availableForImages, totalNaturalWidth, D) ==
  Round(prerender_TARGET_ROW_HEIGHT * availableForImages * D, totalNaturalWidth)

\* the script's for loop that places the images of a row
RECURSIVE prerender_PlaceRow(_, _, _, _, _, _, _)
prerender_PlaceRow(rowImages, availableForImages, totalNaturalWidth, rowHeight, currentY, i, currentX) ==
  IF i > Len(rowImages) THEN << >>
  ELSE LET item == rowImages[i]
           width == IF i = Len(rowImages)
                    THEN prerender_WORLD_SIZE - currentX - prerender_GAP
                    ELSE Round(item.naturalWidth * availableForImages, totalNaturalWidth)
       IN << [id |-> item.image.id, x |-> currentX, y |-> currentY,
              width |-> width, height |-> rowHeight] >>
          \o prerender_PlaceRow(rowImages, availableForImages, totalNaturalWidth,
                                rowHeight, currentY, i + 1,
                                currentX + width + prerender_GAP)

\* one round of the script's outer while loop
prerender_Row(allImages, D, currentY, imageIndex) ==
  LET row == prerender_CollectRow(allImages, D, imageIndex, << >>, 0)
      rowImages == row.rowImages
      numGaps == Len(rowImages) - 1
      availableForImages == prerender_WORLD_SIZE - numGaps * prerender_GAP
      scaled == prerender_ScaledRowHeight(availableForImages, row.totalNaturalWidth, D)
      remainingHeight == prerender_WORLD_SIZE - currentY - prerender_GAP
      rowHeight == IF scaled > remainingHeight THEN remainingHeight ELSE scaled
  IN IF Len(rowImages) = 0
     THEN [break |-> TRUE, placed |-> << >>, currentY |-> currentY,
           imageIndex |-> row.imageIndex]
     ELSE IF scaled > remainingHeight /\ remainingHeight < 100
          THEN [break |-> TRUE, placed |-> << >>, currentY |-> currentY,
                imageIndex |-> row.imageIndex]
          ELSE [break |-> FALSE,
                placed |-> prerender_PlaceRow(rowImages, availableForImages,
                             row.totalNaturalWidth, rowHeight, currentY, 1, 0),
                currentY |-> currentY + rowHeight + prerender_GAP,
                imageIndex |-> row.imageIndex]

\* getInitialVisibleImages: the loop runs over the images up to and including
\* the first one with img.y > viewHeight and pushes those that pass the test
getInitialVisibleImages(layout, viewWidth, viewHeight) ==
  LET passed == { i \in DOMAIN layout : layout[i].y > viewHeight }
      last == IF passed = {} THEN Len(layout)
              ELSE CHOOSE i \in passed : \A k \in passed : i <= k
  IN SelectSeq(SubSeq(layout, 1, last),
               LAMBDA img : /\ img.x < viewWidth
                            /\ img.x + img.width > 0
                            /\ img.y < viewHeight
                            /\ img.y + img.height > 0)

\* .slice(0, count)
Slice(seq, count) == SubSeq(seq, 1, Min(Len(seq), count))

\* generatePrerender reads the manifest
GeneratePrerender ==
  /\ run.pc = "idle"
  /\ \E allImages \in PrerenderLists :
       run' = [pc |-> "layout", allImages |-> allImages, currentY |-> 0,
               imageIndex |-> 0, placedImages |-> << >>,
               selected |-> << >>, visible |-> << >>]
  /\ UNCHANGED <<cachedLayout, cachedImageCount, spatialIndex, call, first, pan,
               canvas, browser>>

\* one round of the outer loop of the script's computeGlobalLayout
PrerenderRow ==
  /\ run.pc = "layout"
  /\ IF ~(run.currentY < prerender_WORLD_SIZE)
     THEN run' = [run EXCEPT !.pc = "select"]
     ELSE \E r \in { prerender_Row(run.allImages, CommonDen(run.allImages, 1),
                                   run.currentY, run.imageIndex) } :
            run' = IF r.break
                   THEN [run EXCEPT !.pc = "select", !.imageIndex = r.imageIndex]
                   ELSE [run EXCEPT !.placedImages = @ \o r.placed,
                                    !.currentY = r.currentY,
                                    !.imageIndex = r.imageIndex]
  /\ UNCHANGED <<cachedLayout, cachedImageCount, spatialIndex, call, first, pan,
               canvas, browser>>

\* getInitialVisibleImages(layout, 800, 900).slice(0, IMAGES_TO_PRERENDER)
PrerenderSelect ==
  /\ run.pc = "select"
  /\ \E sel \in { getInitialVisibleImages(run.placedImages, 800, 900) } :
       run' = [run EXCEPT !.pc = "html", !.selected = sel,
                          !.visible = Slice(sel, IMAGES_TO_PRERENDER)]
  /\ UNCHANGED <<cachedLayout, cachedImageCount, spatialIndex, call, first, pan,
               canvas, browser>>

\* the application mounts in an 800 x 900 window: Canvas queries with pan (0, 0)
RuntimeMount ==
  /\ run.pc = "html"
  /\ call.op = "none"
  /\ CallGetVisibleImages(PrerenderView, run.allImages)
  /\ first' = Remember(run.allImages, call'.layout)
  /\ UNCHANGED <<run, pan, canvas, browser>>

PrerenderNext == GeneratePrerender \/ PrerenderRow \/ PrerenderSelect \/ RuntimeMount

PrerenderSpec == Init /\ [][PrerenderNext]_vars

-----------------------------------------------------------------------------
(* The Canvas component driven by the browser: pointer events and animation
   frames, each handler running to completion.  The layout engine is left
   alone. *)

\* pointer-downs in a behaviour
MaxDowns == 2
\* pointer-moves of a drag in a behaviour
MaxMoves == 1
\* the frames of an inertia loop after which the pointer no longer goes down
MaxInterruptFrame == 1

engineVars == <<cachedLayout, cachedImageCount, spatialIndex, call, first, run, pan>>

\* pointer events: where the pointer is, and for a move the time since the
\* previous reading of Date.now()
DownEvents == { [clientX |-> 100, clientY |-> 100] }
MoveEvents ==
  { [clientX |-> 160, clientY |-> 100, dt |-> 100],   \* 600 px/s to the right
    [clientX |-> 100, clientY |-> 160, dt |-> 100],   \* 600 px/s down
    [clientX |-> 103, clientY |-> 103, dt |-> 100] }  \* 30 px/s

\* onPointerDown with event e
PointerDownAt(e) ==
  /\ browser.downs < MaxDowns
  /\ canvas.animationFrameRef # 0 => browser.loopFrames <= MaxInterruptFrame
  /\ \E st \in { handlePointerDown([canvas |-> canvas, browser |-> browser], e) } :
       /\ canvas' = st.canvas
       /\ browser' = [st.browser EXCEPT !.downs = @ + 1,
                                        !.downAt = Point(e.clientX, e.clientY),
                                        !.released = FALSE,
                                        !.farMove = FALSE]
  /\ UNCHANGED engineVars

\* onPointerMove with event e; the handler reads the clock only in a drag
PointerMoveTo(e) ==
  /\ canvas.isDragging => browser.moves < MaxMoves
  /\ \E st \in { handlePointerMove(
                   [canvas |-> canvas,
                    browser |-> [browser EXCEPT !.now = IF canvas.isDragging
                                                        THEN @ + e.dt ELSE @]], e) } :
       /\ canvas' = st.canvas
       /\ browser' = [st.browser EXCEPT
            !.moves = IF canvas.isDragging THEN @ + 1 ELSE @,
            !.farMove = \/ @
                        \/ /\ ~browser.released
                           /\ Abs(e.clientX - browser.downAt.x)
                                + Abs(e.clientY - browser.downAt.y) > 5]
  /\ UNCHANGED engineVars

PointerDown == \E e \in DownEvents : PointerDownAt(e)

PointerMove == \E e \in MoveEvents : PointerMoveTo(e)

\* onPointerUp and onPointerCancel
PointerUp ==
  /\ \E st \in { handlePointerUp([canvas |-> canvas, browser |-> browser]) } :
       /\ canvas' = st.canvas
       /\ browser' = [st.browser EXCEPT
            !.released = TRUE,
            !.loopFrames = IF canvas.isDragging THEN 0 ELSE @]
  /\ UNCHANGED engineVars

\* the browser runs an animation frame
AnimationFrame ==
  /\ \E st \in { RunFrame([canvas |-> canvas, browser |-> browser]) } :
       /\ canvas' = st.canvas
       /\ browser' = [st.browser EXCEPT
            !.loopFrames = IF canvas.animationFrameRef # 0
                           THEN Min(@ + 1, MaxInterruptFrame + 1) ELSE @]
  /\ UNCHANGED engineVars

CanvasNext == PointerDown \/ PointerMove \/ PointerUp \/ AnimationFrame

\* the browser keeps running animation frames
CanvasSpec == Init /\ [][CanvasNext]_vars /\ WF_vars(AnimationFrame)

\* Clicks on images: the pointer goes down on an image, moves a few pixels
\* or not at all, goes up, and the image's onClick runs
PressEvents == { [clientX |-> 100, clientY |-> 100], [clientX |-> 160, clientY |-> 100] }
NudgeEvents ==
  { [clientX |-> 102, clientY |-> 103, dt |-> 100],   \* 5 px from (100, 100)
    [clientX |-> 103, clientY |-> 103, dt |-> 100],   \* 6 px from (100, 100)
    [clientX |-> 103, clientY |-> 103, dt |-> 0],
    [clientX |-> 100, clientY |-> 100, dt |-> 100] }

PressImage == \E e \in PressEvents : PointerDownAt(e)

NudgePointer == \E e \in NudgeEvents : PointerMoveTo(e)

\* the images prop of the component
CanvasImages == <<a, b, c>>

\* onClick of a rendered image
ImageClick ==
  /\ \E imageId \in { "a", "b" } :
       \E st \in { handleImageClick([canvas |-> canvas, browser |-> browser],
                                    imageId, CanvasImages) } :
         /\ canvas' = st.canvas
         /\ browser' = st.browser
  /\ UNCHANGED engineVars

\* onClose of the lightbox
CloseLightbox ==
  /\ ~canvas.lightboxImage.isNull
  /\ canvas' = closeLightbox([canvas |-> canvas, browser |-> browser]).canvas
  /\ UNCHANGED browser
  /\ UNCHANGED engineVars

ClickNext ==
  PressImage \/ NudgePointer \/ PointerUp \/ ImageClick \/ CloseLightbox \/ AnimationFrame

ClickSpec == Init /\ [][ClickNext]_vars /\ WF_vars(AnimationFrame)

-----------------------------------------------------------------------------
(* A panning session: from module load on, only getVisibleImages is called,
   with lists of one length and viewports that move between two world copies.
   pan remembers the first query: its viewport and results and the layout and
   index it left. *)

PanLists == { l \in ImageLists : Len(l) = 1 }

PanViews == ViewportsAt(0..1)

PanQuery ==
  \E allImages \in PanLists :
    \E view \in PanViews :
      /\ CallGetVisibleImages(view, allImages)
      /\ first' = Remember(allImages, call'.layout)
      /\ pan' = IF pan.isNull
                THEN NonNull([view |-> view, results |-> call'.results,
                              cachedLayout |-> cachedLayout',
                              spatialIndex |-> spatialIndex'])
                ELSE pan
      /\ UNCHANGED <<run, canvas, browser>>

PanSpec == Init /\ [][PanQuery]_vars

-----------------------------------------------------------------------------
(* computeGlobalLayout on a cold cache, one loop iteration at a time.  run
   holds the locals; pc is the place in the code: "outer" the test of the
   outer loop (line 48), "inner" the test of the inner loop (line 54), "row"
   line 72, "return" line 117, "done" after the return. *)

\* lines 43-45: the locals when the cache test has failed
StartRun(allImages) ==
  [pc |-> "outer", allImages |-> allImages, currentY |-> 0, imageIndex |-> 0,
   rowImages |-> << >>, totalNaturalWidth |-> 0, placedImages |-> << >>,
   scaledHeight |-> 0, remainingHeight |-> 0, rowHeight |-> 0, exit |-> "none"]

PackInit ==
  /\ ModuleLoaded
  /\ pan = Null
  /\ canvas = CanvasMounted
  /\ browser = BrowserLoaded
  /\ run \in { StartRun(allImages) : allImages \in ImageLists }

\* line 48: while (currentY < WORLD_SIZE), and lines 50-51
OuterTest ==
  /\ run.pc = "outer"
  /\ run' = IF run.currentY < WORLD_SIZE
            THEN [run EXCEPT !.pc = "inner", !.rowImages = << >>,
                             !.totalNaturalWidth = 0]
            ELSE [run EXCEPT !.pc = "return", !.exit = "filled"]
  /\ UNCHANGED <<cachedLayout, cachedImageCount, spatialIndex, call, first, pan,
               canvas, browser>>

\* lines 54-70: one round of the inner loop
InnerStep ==
  /\ run.pc = "inner"
  /\ LET allImages == run.allImages
         D == CommonDen(allImages, 1)
         image == allImages[(run.imageIndex % Len(allImages)) + 1]
         naturalWidth == NaturalWidth(image, D)
         gapsIfAdded == Len(run.rowImages) * GAP
         widthIfAdded == run.totalNaturalWidth + naturalWidth + gapsIfAdded * D
     IN run' = IF ~CursorInBound(run.imageIndex, allImages)
               THEN [run EXCEPT !.pc = "row"]
               ELSE IF RowIsFull(widthIfAdded, D, run.rowImages)
                    THEN [run EXCEPT !.pc = "row"]
                    ELSE [run EXCEPT
                            !.rowImages = Append(@, [image |-> image,
                                                     naturalWidth |-> naturalWidth]),
                            !.totalNaturalWidth = @ + naturalWidth,
                            !.imageIndex = @ + 1]
  /\ UNCHANGED <<cachedLayout, cachedImageCount, spatialIndex, call, first, pan,
               canvas, browser>>

\* lines 72-114: the row is dropped or placed
CloseRow ==
  /\ run.pc = "row"
  /\ LET D == CommonDen(run.allImages, 1)
         rowImages == run.rowImages
         numGaps == Len(rowImages) - 1
         availableForImages == WORLD_SIZE - numGaps * GAP
         scaled == ScaledRowHeight(availableForImages, run.totalNaturalWidth, D)
         remainingHeight == RemainingHeight(run.currentY)
         rowHeight == ClampRowHeight(scaled, remainingHeight)
     IN run' = IF Len(rowImages) = 0
               THEN [run EXCEPT !.pc = "return", !.exit = "empty"]
               ELSE IF scaled > remainingHeight /\ remainingHeight < MinRowHeight
                    THEN [run EXCEPT !.pc = "return", !.exit = "dropped",
                                     !.scaledHeight = scaled,
                                     !.remainingHeight = remainingHeight]
                    ELSE [run EXCEPT
                            !.pc = "outer",
                            !.scaledHeight = scaled,
                            !.remainingHeight = remainingHeight,
                            !.rowHeight = rowHeight,
                            !.placedImages =
                               @ \o PlaceRow(rowImages, availableForImages,
                                             run.totalNaturalWidth, rowHeight,
                                             run.currentY, 1, 0),
                            !.currentY = AdvanceY(@, rowHeight)]
  /\ UNCHANGED <<cachedLayout, cachedImageCount, spatialIndex, call, first, pan,
               canvas, browser>>

\* lines 117-121: the layout is cached, indexed and returned
Return ==
  /\ run.pc = "return"
  /\ run' = [run EXCEPT !.pc = "done"]
  /\ cachedLayout' = NonNull(run.placedImages)
  /\ cachedImageCount' = Len(run.allImages)
  /\ spatialIndex' = NonNull(buildSpatialIndex(run.placedImages))
  /\ call' = [op |-> "computeGlobalLayout", allImages |-> run.allImages,
              view |-> NoView, hit |-> FALSE, layout |-> run.placedImages,
              results |-> << >>, threw |-> Throws(run.allImages)]
  /\ first' = Remember(run.allImages, run.placedImages)
  /\ UNCHANGED <<pan, canvas, browser>>

PackNext == OuterTest \/ InnerStep \/ CloseRow \/ Return

\* the function runs to completion: the code is synchronous and single-threaded
PackSpec == PackInit /\ [][PackNext]_vars /\ WF_vars(PackNext)

-----------------------------------------------------------------------------
(* Properties *)

\* the call just made went through computeGlobalLayout
Called == call.op # "none"

\* the last call was getVisibleImages
Queried == call.op = "getVisibleImages"

\* a non-empty list whose aspect ratios are all > 0
ValidList(allImages) ==
  /\ Len(allImages) > 0
  /\ \A i \in DOMAIN allImages :
       allImages[i].aspectRatio[1] > 0 /\ allImages[i].aspectRatio[2] > 0

\* the rows of a layout, each named by its y
RowYs(layout) == { layout[i].y : i \in DOMAIN layout }

\* the images of the row at y, left to right
RowAt(layout, y) == SelectSeq(layout, LAMBDA img : img.y = y)

RECURSIVE SumWidths(_)
SumWidths(row) == IF row = << >> THEN 0 ELSE Head(row).width + SumWidths(Tail(row))

\* C1: computeGlobalLayout is a pure function of the image list: two calls
\* whose lists are equal return equal layouts, whatever calls with other
\* lists came before or in between.  Stated for the first layout request and
\* the latest one.
C1_PureFunctionOfList ==
  (Called /\ ~first.isNull /\ call.allImages = first.value.allImages)
    => call.layout = first.value.layout

\* C2 as claimed: in every row of the layout, the widths plus (count - 1)
\* gaps add up to WORLD_SIZE.
C2_RowFillsWorldSize ==
  Called =>
    \A y \in RowYs(call.layout) :
      SumWidths(RowAt(call.layout, y)) + (Len(RowAt(call.layout, y)) - 1) * GAP
        = WORLD_SIZE

\* C2 amended: in every row of the layout, the widths plus one gap per image
\* (the last image is followed by a gap too) add up to WORLD_SIZE, so the
\* widths plus the (count - 1) inner gaps add up to WORLD_SIZE - GAP.
C2_RowPlusTrailingGapFillsWorldSize ==
  Called =>
    \A y \in RowYs(call.layout) :
      SumWidths(RowAt(call.layout, y)) + Len(RowAt(call.layout, y)) * GAP
        = WORLD_SIZE

\* a layout with several rows, one of them with three or more images, was
\* computed for the list of the call
C2_Witness ==
  /\ Called /\ ~call.hit
  /\ Cardinality(RowYs(call.layout)) >= 2
  /\ \E y \in RowYs(call.layout) : Len(RowAt(call.layout, y)) >= 3

-----------------------------------------------------------------------------
(* Properties of getVisibleImages *)

\* the entries of the result of the last call, as a set
ResultSet == { call.results[i] : i \in DOMAIN call.results }

\* the entry for placed image img in world copy (wx, wy)
Instance(img, wx, wy) ==
  [image |-> img, renderX |-> img.x + wx * WORLD_SIZE,
   renderY |-> img.y + wy * WORLD_SIZE]

\* the closed rectangle [x, x + w] x [y, y + h] and the closed viewport
\* rectangle share a point (edges touching count)
Overlaps(x, y, w, h, view) ==
  /\ x <= view.viewX + view.viewWidth
  /\ view.viewX <= x + w
  /\ y <= view.viewY + view.viewHeight
  /\ view.viewY <= y + h

\* the rectangle and the viewport share an area: their intersection has
\* positive width and height
OverlapsInside(x, y, w, h, view) ==
  /\ Max(x, view.viewX) < Min(x + w, view.viewX + view.viewWidth)
  /\ Max(y, view.viewY) < Min(y + h, view.viewY + view.viewHeight)

\* the world copies a viewport spans on each axis, and one more on each side
CopiesX(view) ==
  ((view.viewX \div WORLD_SIZE) - 1)
    .. (((view.viewX + view.viewWidth) \div WORLD_SIZE) + 1)
CopiesY(view) ==
  ((view.viewY \div WORLD_SIZE) - 1)
    .. (((view.viewY + view.viewHeight) \div WORLD_SIZE) + 1)

\* the instances of the layout whose translated rectangle overlaps the viewport
OverlappingInstances(layout, view) ==
  { Instance(layout[i], wx, wy) :
      <<i, wx, wy>> \in
        { t \in (DOMAIN layout) \X CopiesX(view) \X CopiesY(view) :
            Overlaps(layout[t[1]].x + t[2] * WORLD_SIZE,
                     layout[t[1]].y + t[3] * WORLD_SIZE,
                     layout[t[1]].width, layout[t[1]].height, view) } }

\* C3 as claimed: the result of getVisibleImages is exactly the set of
\* instances (placed image, world copy) whose translated rectangle overlaps
\* the viewport, edges touching included: none omitted, none extra.
C3_ExactlyTheOverlappingInstances ==
  Queried => ResultSet = OverlappingInstances(call.layout, call.view)

\* C4: no two entries of a result are the same placed image in the same world
\* copy (same image, renderX and renderY), and a placed image that shares an
\* area with the viewport in a world copy has exactly one entry for that copy.
C4_OneEntryPerInstance ==
  Queried =>
    /\ \A i, j \in DOMAIN call.results :
         (/\ call.results[i].image = call.results[j].image
          /\ call.results[i].renderX = call.results[j].renderX
          /\ call.results[i].renderY = call.results[j].renderY) => i = j
    /\ \A k \in DOMAIN call.layout :
         \A wx \in CopiesX(call.view) :
           \A wy \in CopiesY(call.view) :
             OverlapsInside(call.layout[k].x + wx * WORLD_SIZE,
                            call.layout[k].y + wy * WORLD_SIZE,
                            call.layout[k].width, call.layout[k].height, call.view)
               => Cardinality({ i \in DOMAIN call.results :
                                  call.results[i] = Instance(call.layout[k], wx, wy) }) = 1

\* a query returned one placed image in two world copies, and some instance
\* was reached more than once (through several cells) and pushed once
C4_Witness ==
  /\ Queried
  /\ \E i, j \in DOMAIN call.results :
       /\ call.results[i].image = call.results[j].image
       /\ call.results[i].renderX # call.results[j].renderX
  /\ Len(AllHits(spatialIndex.value, call.view)) > Len(call.results)

\* the viewport lies fully inside world copy (kx, ky)
InsideCopy(view, kx, ky) ==
  /\ kx * WORLD_SIZE <= view.viewX
  /\ view.viewX + view.viewWidth < (kx + 1) * WORLD_SIZE
  /\ ky * WORLD_SIZE <= view.viewY
  /\ view.viewY + view.viewHeight < (ky + 1) * WORLD_SIZE

\* the viewport moved to the local coordinates of world copy (kx, ky)
LocalView(view, kx, ky) ==
  [viewX |-> view.viewX - kx * WORLD_SIZE, viewY |-> view.viewY - ky * WORLD_SIZE,
   viewWidth |-> view.viewWidth, viewHeight |-> view.viewHeight]

\* the brute-force filter of a layout by overlap with a local rectangle, each
\* image rendered in world copy (kx, ky)
BruteForce(layout, local, kx, ky) ==
  { Instance(layout[i], kx, ky) :
      i \in { k \in DOMAIN layout :
                Overlaps(layout[k].x, layout[k].y, layout[k].width, layout[k].height,
                         local) } }

\* C5 as claimed: for a viewport fully inside one world copy (kx, ky) the
\* query returns the same set as the brute-force filter of the layout by
\* overlap with the local rectangle, rendered at (x + kx * WORLD_SIZE,
\* y + ky * WORLD_SIZE).
C5_InsideOneCopyIsBruteForce ==
  Queried =>
    \A kx, ky \in (-MaxCopy - 1)..(MaxCopy + 1) :
      InsideCopy(call.view, kx, ky)
        => ResultSet = BruteForce(call.layout, LocalView(call.view, kx, ky), kx, ky)

\* C5 amended: the same, for viewports of positive width and height (a
\* viewport of zero width or height gets the empty result although the
\* brute-force filter keeps the images its line touches).
C5_InsideOneCopyPositiveSizeIsBruteForce ==
  Queried =>
    \A kx, ky \in (-MaxCopy - 1)..(MaxCopy + 1) :
      (/\ InsideCopy(call.view, kx, ky)
       /\ call.view.viewWidth > 0
       /\ call.view.viewHeight > 0)
        => ResultSet = BruteForce(call.layout, LocalView(call.view, kx, ky), kx, ky)

\* a query with a viewport of positive size inside a world copy other than
\* copy (0, 0) returned images, one of which only touches the viewport
C5_Witness ==
  /\ Queried
  /\ call.view.viewWidth > 0 /\ call.view.viewHeight > 0
  /\ \E kx, ky \in ((-MaxCopy - 1)..(MaxCopy + 1)) \ {0} :
       InsideCopy(call.view, kx, ky)
  /\ \E i \in DOMAIN call.results :
       ~OverlapsInside(call.results[i].renderX, call.results[i].renderY,
                       call.results[i].image.width, call.results[i].image.height,
                       call.view)

\* the first and the last image of the row at y
FirstOfRow(layout, y) == RowAt(layout, y)[1]
LastOfRow(layout, y) == RowAt(layout, y)[Len(RowAt(layout, y))]

\* the row at y, in world copy wy, intersects the viewport vertically
RowIntersects(layout, y, wy, view) ==
  Max(y + wy * WORLD_SIZE, view.viewY)
    < Min(y + FirstOfRow(layout, y).height + wy * WORLD_SIZE,
          view.viewY + view.viewHeight)

\* C6 as claimed: when the viewport straddles the boundary between world
\* copies wx and wx + 1 on the X axis (viewX <= (wx + 1) * WORLD_SIZE - GAP and
\* (wx + 1) * WORLD_SIZE <= viewX + viewWidth), then for each row that
\* intersects the viewport vertically the result holds the row's last image
\* from copy wx and the row's first image from copy wx + 1.
C6_SeamContinuity ==
  Queried =>
    \A wx \in CopiesX(call.view) :
      (/\ call.view.viewX <= (wx + 1) * WORLD_SIZE - GAP
       /\ (wx + 1) * WORLD_SIZE <= call.view.viewX + call.view.viewWidth)
        => \A wy \in CopiesY(call.view) :
             \A y \in RowYs(call.layout) :
               RowIntersects(call.layout, y, wy, call.view)
                 => /\ Instance(LastOfRow(call.layout, y), wx, wy) \in ResultSet
                    /\ Instance(FirstOfRow(call.layout, y), wx + 1, wy) \in ResultSet

\* the viewport of the negative-coordinate query
NegativeView ==
  [viewX |-> -12050, viewY |-> -12050, viewWidth |-> 200, viewHeight |-> 200]

\* C7: world-copy indices are floors, so that a viewport at negative
\* coordinates is served from copies with negative indices: every image that
\* shares an area with the viewport in the copy of the viewport's top-left
\* corner, copy (floor(viewX / WORLD_SIZE), floor(viewY / WORLD_SIZE)), is
\* returned at its position in that copy; and getVisibleImages(-12050, -12050,
\* 200, 200, images) over a non-empty layout is not empty and returns
\* instances of copy (-1, -1), at (image.x - 12000, image.y - 12000).
C7_NegativeCoordinates ==
  Queried =>
    /\ \A k \in DOMAIN call.layout :
         LET wx == call.view.viewX \div WORLD_SIZE
             wy == call.view.viewY \div WORLD_SIZE
         IN OverlapsInside(call.layout[k].x + wx * WORLD_SIZE,
                           call.layout[k].y + wy * WORLD_SIZE,
                           call.layout[k].width, call.layout[k].height, call.view)
              => Instance(call.layout[k], wx, wy) \in ResultSet
    /\ (call.view = NegativeView /\ call.layout # << >>)
         => /\ call.results # << >>
            /\ \E k \in DOMAIN call.layout :
                 [image |-> call.layout[k], renderX |-> call.layout[k].x - 12000,
                  renderY |-> call.layout[k].y - 12000] \in ResultSet

\* the negative-coordinate query was made on a freshly packed layout and
\* returned an image of copy (-1, -1) and an image of copy (-2, -2)
C7_Witness ==
  /\ Queried /\ ~call.hit
  /\ call.view = NegativeView
  /\ \E i, j \in DOMAIN call.results :
       /\ call.results[i].renderX = call.results[i].image.x - WORLD_SIZE
       /\ call.results[i].renderY = call.results[i].image.y - WORLD_SIZE
       /\ call.results[j].renderX = call.results[j].image.x - 2 * WORLD_SIZE
       /\ call.results[j].renderY = call.results[j].image.y - 2 * WORLD_SIZE

-----------------------------------------------------------------------------
(* Properties of the layout *)

\* C8: for a non-empty list with all aspect ratios > 0, every placed image of
\* the layout computeGlobalLayout returns has y + height <= WORLD_SIZE.
C8_NoVerticalOverflow ==
  (Called /\ ValidList(call.allImages)) =>
    \A i \in DOMAIN call.layout :
      call.layout[i].y + call.layout[i].height <= WORLD_SIZE

\* a layout was packed whose last row was clamped to the remaining height: it
\* is shorter than the row before it and ends at WORLD_SIZE - GAP
C8_Witness ==
  /\ Called /\ ~call.hit /\ ValidList(call.allImages)
  /\ \E i, j \in DOMAIN call.layout :
       /\ call.layout[j].y + call.layout[j].height = WORLD_SIZE - GAP
       /\ call.layout[i].y < call.layout[j].y
       /\ call.layout[i].height > call.layout[j].height

\* the bottom edge of the last row of a layout
BottomOf(layout) == layout[Len(layout)].y + layout[Len(layout)].height

\* C9 as claimed: for a non-empty list with all aspect ratios > 0 the rows
\* span the world from top to bottom: the first row starts at y = 0, and
\* neither the gap between two consecutive rows nor the gap between the
\* bottom edge of the last row and WORLD_SIZE exceeds the minimum row height.
C9_RowsSpanTheWorld ==
  (Called /\ ValidList(call.allImages)) =>
    /\ call.layout # << >>
    /\ call.layout[1].y = 0
    /\ \A i \in 1..(Len(call.layout) - 1) :
         call.layout[i + 1].y - (call.layout[i].y + call.layout[i].height)
           <= MinRowHeight
    /\ WORLD_SIZE - BottomOf(call.layout) <= MinRowHeight

\* C10: in the layout computeGlobalLayout returns, consecutive images of a
\* row do not overlap horizontally (for neighbours l, r: l.x + l.width <= r.x) and consecutive rows
\* do not overlap vertically (r.y + r.height <= s.y).
C10_NoOverlap ==
  Called =>
    \A i \in 1..(Len(call.layout) - 1) :
      LET left == call.layout[i]
          right == call.layout[i + 1]
      IN /\ left.y = right.y => left.x + left.width <= right.x
         /\ left.y # right.y => left.y + left.height <= right.y

\* a layout with several rows, one of them with three or more images, was
\* packed, and both kinds of neighbours occur in it
C10_Witness ==
  /\ Called /\ ~call.hit
  /\ \E i \in 1..(Len(call.layout) - 2) :
       /\ call.layout[i].y = call.layout[i + 1].y
       /\ call.layout[i + 1].y = call.layout[i + 2].y
  /\ \E i \in 1..(Len(call.layout) - 1) :
       call.layout[i].y # call.layout[i + 1].y

-----------------------------------------------------------------------------
(* Properties of the packer's exits *)

\* the repetition cursor of the packing of allImages reached its bound: every
\* step of the cursor collects one image, so the layout holds
\* SafetyFactor * length images
AtSafetyBound(allImages, layout) == Len(layout) = Len(allImages) * SafetyFactor

\* the world is filled: the last row ends at WORLD_SIZE - GAP
WorldFilled(layout) == layout # << >> /\ BottomOf(layout) = WORLD_SIZE - GAP

\* C11 as claimed: when the repetition cursor reaches its safety bound before
\* the world is filled, computeGlobalLayout signals an error (it throws)
\* instead of returning the truncated layout.
C11_SafetyBoundSurfaced ==
  (/\ Called /\ ~call.hit
   /\ AtSafetyBound(call.allImages, call.layout)
   /\ ~WorldFilled(call.layout))
    => call.threw

\* C12 as claimed: a call of computeGlobalLayout or getVisibleImages with a
\* malformed list (empty, or holding an image whose aspectRatio is not
\* positive) throws and leaves the cached layout and the index as they were.
C12_MalformedInputFailsFast ==
  [][ (call'.op # "none" /\ ~ValidList(call'.allImages))
        => /\ call'.threw
           /\ cachedLayout' = cachedLayout
           /\ spatialIndex' = spatialIndex ]_vars

\* C13: computeGlobalLayout terminates for a non-empty list with all aspect
\* ratios > 0 and returns a list without throwing: every run reaches its
\* return; each round of the inner loop that stays in the loop advances the
\* cursor by one and keeps it within SafetyFactor * length; each emitted row
\* moves currentY down by at least GAP; and the list returned is the layout
\* of the list.
C13_PackerTerminates ==
  /\ <>(run.pc = "done")
  /\ [][ (run.pc = "inner" /\ run'.pc = "inner")
           => /\ run'.imageIndex = run.imageIndex + 1
              /\ run'.imageIndex <= SafetyFactor * Len(run.allImages) ]_vars
  /\ [][ (run.pc = "row" /\ run'.pc = "outer")
           => run'.currentY >= run.currentY + GAP ]_vars
  /\ [](run.pc = "done"
          => /\ ValidList(run.allImages)
             /\ ~call.threw
             /\ call.layout = Pack(run.allImages))

\* a run returned after dropping its last row, with rows placed before it
C13_Witness ==
  /\ run.pc = "done"
  /\ run.exit = "dropped"
  /\ call.layout # << >>

-----------------------------------------------------------------------------
(* Properties of the cache *)

\* C14: a call rebuilds the layout and the index exactly when nothing is
\* cached or the cached image count differs from the length of its list: then
\* the layout packed from the list and the index built from it are stored,
\* with the length of the list; otherwise (same length, whatever the contents)
\* the call returns the cached layout and leaves layout, count and index as
\* they were.
C14_RebuiltExactlyOnCountChange ==
  [][ call'.op # "none" =>
        IF cachedLayout.isNull \/ cachedImageCount # Len(call'.allImages)
        THEN /\ ~call'.hit
             /\ call'.layout = Rebuild(call'.allImages).placedImages
             /\ cachedLayout' = NonNull(call'.layout)
             /\ cachedImageCount' = Len(call'.allImages)
             /\ spatialIndex' = NonNull(Rebuild(call'.allImages).index)
        ELSE /\ call'.hit
             /\ call'.layout = cachedLayout.value
             /\ cachedLayout' = cachedLayout
             /\ cachedImageCount' = cachedImageCount
             /\ spatialIndex' = spatialIndex ]_vars

\* a call with a list as long as the cached one but with other contents
\* returned the cached layout, which is not the layout of its list
C14_Witness ==
  /\ Called /\ call.hit
  /\ call.layout = cachedLayout.value
  /\ call.layout # Rebuild(call.allImages).placedImages

\* C15: in a sequence of getVisibleImages calls with lists of one length and
\* arbitrary viewports the cached layout and the index stay what the first
\* query left, and a query with the viewport of the first query returns the
\* results of the first query, whichever list of that length it passes.
C15_PanningKeepsLayout ==
  (Queried /\ ~pan.isNull) =>
    /\ cachedLayout = pan.value.cachedLayout
    /\ spatialIndex = pan.value.spatialIndex
    /\ call.layout = cachedLayout.value
    /\ call.view = pan.value.view => call.results = pan.value.results

\* the viewport of the first query is queried again, with the other list of
\* the same length, and images are returned from the cached layout
C15_Witness ==
  /\ Queried /\ ~pan.isNull
  /\ call.hit
  /\ call.view = pan.value.view
  /\ call.allImages # first.value.allImages
  /\ call.results # << >>

-----------------------------------------------------------------------------
(* Properties of the rows *)

\* the three images of the concrete scenario: aspect ratios 1.5, 1.0, 2.0
Scenario == <<a, b, c>>

\* the first row of the layout of the last call
FirstRow == RowAt(call.layout, 0)

\* the ids of the row are those of the list, repeated in order
CyclicIds(row, allImages) ==
  \A i \in DOMAIN row : row[i].id = allImages[((i - 1) % Len(allImages)) + 1].id

\* the natural widths 320 * aspectRatio of the first count images of the
\* list repeated in order, added up (whole numbers for the scenario)
RECURSIVE NaturalSum(_, _)
NaturalSum(allImages, count) ==
  IF count = 0 THEN 0
  ELSE LET ar == allImages[((count - 1) % Len(allImages)) + 1].aspectRatio
       IN (320 * ar[1]) \div ar[2] + NaturalSum(allImages, count - 1)

\* h is round(320 * scale), scale = (12000 - (count - 1) * 30) / natural
IsRoundedHeight(h, count, natural) ==
  /\ 2 * h * natural <= 2 * 320 * (12000 - (count - 1) * 30) + natural
  /\ 2 * 320 * (12000 - (count - 1) * 30) + natural < 2 * (h + 1) * natural

\* C16 as claimed: for the images of aspect ratios 1.5, 1.0, 2.0 the first
\* row holds exactly these 3 images, its widths plus gaps add up to 12000 and
\* its height is round(320 * scale).
C16_ScenarioRowOfThree ==
  (Called /\ ~call.hit /\ call.allImages = Scenario) =>
    /\ Len(FirstRow) = 3
    /\ CyclicIds(FirstRow, Scenario)
    /\ SumWidths(FirstRow) + (Len(FirstRow) - 1) * 30 = 12000
    /\ IsRoundedHeight(FirstRow[1].height, Len(FirstRow), NaturalSum(Scenario, Len(FirstRow)))

\* C16 amended: the first row holds 23 images, the three images repeated in
\* input order (a, b, c, a, b, ..., a, b); its widths plus the 22 gaps between
\* them add up to 11970 = WORLD_SIZE - GAP; and the height of each of its
\* images is round(320 * scale) = 334, scale = (12000 - 22 * 30) / 10880.
C16_ScenarioRowOfTwentyThree ==
  (Called /\ ~call.hit /\ call.allImages = Scenario) =>
    /\ Len(FirstRow) = 23
    /\ CyclicIds(FirstRow, Scenario)
    /\ SumWidths(FirstRow) + (Len(FirstRow) - 1) * 30 = 11970
    /\ NaturalSum(Scenario, 23) = 10880
    /\ \A i \in DOMAIN FirstRow :
         /\ FirstRow[i].height = 334
         /\ IsRoundedHeight(FirstRow[i].height, 23, 10880)

\* the scenario's list was packed and its first row holds more than its
\* three images
C16_Witness ==
  /\ Called /\ ~call.hit /\ call.allImages = Scenario
  /\ Len(FirstRow) > 3
  /\ FirstRow[4].id = "a"

-----------------------------------------------------------------------------
(* Properties of degenerate viewports *)

\* C17: for a non-empty list getVisibleImages does not throw, and it returns
\* the empty list when the viewport meets no world copy, that is when
\* viewWidth <= 0 or viewHeight <= 0.
C17_EmptyViewportEmptyResult ==
  (Queried /\ call.allImages # << >>) =>
    /\ ~call.threw
    /\ (call.view.viewWidth <= 0 \/ call.view.viewHeight <= 0)
         => call.results = << >>

\* a viewport of zero width, or of negative height, placed over images of the
\* layout was queried
C17_Witness ==
  /\ Queried /\ call.allImages # << >>
  /\ call.view.viewWidth = 0 \/ call.view.viewHeight < 0
  /\ call.results = << >>
  /\ \E i \in DOMAIN call.layout :
       \E wx \in CopiesX(call.view) :
         \E wy \in CopiesY(call.view) :
           /\ call.layout[i].x + wx * WORLD_SIZE <= call.view.viewX
           /\ call.view.viewX <= call.layout[i].x + call.layout[i].width + wx * WORLD_SIZE
           /\ call.layout[i].y + wy * WORLD_SIZE <= call.view.viewY
           /\ call.view.viewY <= call.layout[i].y + call.layout[i].height + wy * WORLD_SIZE

-----------------------------------------------------------------------------
(* Properties of the rows, continued *)

\* C18: in every row of the layout the first image has x = 0, every other
\* image starts GAP after the right edge of the image before it, and the last
\* image's width is WORLD_SIZE - x - GAP, its right edge at WORLD_SIZE - GAP;
\* so from the last image of the row in copy wx to the first image of the row
\* in copy wx + 1 the spacing is GAP.
C18_RowGeometry ==
  Called =>
    \A y \in RowYs(call.layout) :
      LET row == RowAt(call.layout, y)
          last == row[Len(row)]
      IN /\ row[1].x = 0
         /\ \A i \in 1..(Len(row) - 1) :
              row[i + 1].x = row[i].x + row[i].width + GAP
         /\ last.width = WORLD_SIZE - last.x - GAP
         /\ last.x + last.width = WORLD_SIZE - GAP
         /\ \A wx \in (-MaxCopy)..MaxCopy :
              (row[1].x + (wx + 1) * WORLD_SIZE)
                - (last.x + last.width + wx * WORLD_SIZE) = GAP

\* a layout was packed that has a row of three or more images, the second
\* of them GAP after the first
C18_Witness ==
  /\ Called /\ ~call.hit
  /\ \E y \in RowYs(call.layout) :
       /\ Len(RowAt(call.layout, y)) >= 3
       /\ RowAt(call.layout, y)[2].x = RowAt(call.layout, y)[1].width + GAP

-----------------------------------------------------------------------------
(* Properties of the packer's steps *)

\* h is num / den rounded to the nearest integer, halves up (den > 0)
IsRounded(h, num, den) ==
  2 * h * den <= 2 * num + den /\ 2 * num + den < 2 * (h + 1) * den

\* the images the step has appended to placedImages
NewlyPlaced ==
  SubSeq(run'.placedImages, Len(run.placedImages) + 1, Len(run'.placedImages))

\* C19: when a row is closed, round(TARGET_ROW_HEIGHT * scale) is compared
\* with WORLD_SIZE - y - GAP.  If it does not exceed it, the row is placed
\* with that height.  If it does and WORLD_SIZE - y - GAP < 100, the row is
\* dropped and no row is placed any more.  Otherwise the row is placed with
\* height WORLD_SIZE - y - GAP, its bottom edge is at WORLD_SIZE - GAP and it
\* is the last row: the outer loop ends.  Every placed image's bottom edge is
\* at most WORLD_SIZE - GAP.
C19_ClampOrDrop ==
  /\ [][ (run.pc = "row" /\ run.rowImages # << >>) =>
           LET y == run.currentY
               count == Len(run.rowImages)
               rounded == run'.scaledHeight
           IN /\ IsRounded(rounded,
                           320 * (12000 - (count - 1) * 30) * CommonDen(run.allImages, 1),
                           run.totalNaturalWidth)
              /\ IF rounded <= 12000 - y - 30
                 THEN /\ Len(NewlyPlaced) = count
                      /\ \A i \in DOMAIN NewlyPlaced :
                           NewlyPlaced[i].y = y /\ NewlyPlaced[i].height = rounded
                 ELSE IF 12000 - y - 30 < 100
                      THEN /\ run'.pc = "return"
                           /\ NewlyPlaced = << >>
                      ELSE /\ Len(NewlyPlaced) = count
                           /\ \A i \in DOMAIN NewlyPlaced :
                                /\ NewlyPlaced[i].y = y
                                /\ NewlyPlaced[i].height = 12000 - y - 30
                                /\ NewlyPlaced[i].y + NewlyPlaced[i].height = 12000 - 30
                           /\ run'.pc = "outer"
                           /\ ~(run'.currentY < 12000) ]_vars
  /\ [][ run.pc \in {"return", "done"} => run'.placedImages = run.placedImages ]_vars
  /\ [](\A i \in DOMAIN run.placedImages :
          run.placedImages[i].y + run.placedImages[i].height <= 12000 - 30)

\* a row taller than the remaining height was placed, with the remaining
\* height
C19_Witness ==
  /\ run.pc = "outer"
  /\ run.placedImages # << >>
  /\ run.scaledHeight > run.remainingHeight
  /\ run.rowHeight = run.remainingHeight
  /\ run.remainingHeight >= 100

\* C20: the inner loop is left only when the row holds at least 2 images and
\* the natural widths collected, plus the natural width of the next image in
\* cyclic order, plus GAP for each image of the row, exceed WORLD_SIZE, or
\* when the cursor is at its safety bound.  So a placed row that the bound
\* did not cut short has at least 2 images, and a placed row of n >= 3 images
\* has natural widths + (n - 1) * GAP <= WORLD_SIZE.  (Widths are in units of
\* 1 / D, D the common denominator of the aspect ratios.)
C20_RowFillRule ==
  /\ [][ (run.pc = "inner" /\ run'.pc = "row") =>
           LET D == CommonDen(run.allImages, 1)
               next == run.allImages[(run.imageIndex % Len(run.allImages)) + 1]
               nextNatural == (320 * next.aspectRatio[1] * D) \div next.aspectRatio[2]
           IN \/ run.imageIndex = 100 * Len(run.allImages)
              \/ /\ Len(run.rowImages) >= 2
                 /\ run.totalNaturalWidth + nextNatural + 30 * Len(run.rowImages) * D
                      > 12000 * D ]_vars
  /\ [][ (run.pc = "row" /\ run'.pc = "outer") =>
           LET D == CommonDen(run.allImages, 1)
               count == Len(run.rowImages)
           IN /\ run.imageIndex < 100 * Len(run.allImages) => count >= 2
              /\ count >= 3 =>
                   run.totalNaturalWidth + (count - 1) * 30 * D <= 12000 * D
              /\ Len(run'.placedImages) = Len(run.placedImages) + count ]_vars

\* a row of three or more images was closed by the width test, the cursor
\* below its bound
C20_Witness ==
  /\ run.pc = "row"
  /\ Len(run.rowImages) >= 3
  /\ run.imageIndex < 100 * Len(run.allImages)

\* C21: the images are consumed in input order by one cursor that runs on
\* across rows and wraps modulo the list length: the k-th placed image
\* (0-based) has the id of images[k mod length], the images collected for the
\* open row are the ones the cursor passed last, and neither the cursor nor
\* the number of placed images exceeds 100 * length.
C21_CyclicReuse ==
  run.pc # "idle" =>
    LET images == run.allImages
        length == Len(images)
        collected == Len(run.rowImages)
    IN /\ \A k \in 0..(Len(run.placedImages) - 1) :
            run.placedImages[k + 1].id = images[(k % length) + 1].id
       /\ \A j \in 1..collected :
            run.rowImages[j].image
              = images[((run.imageIndex - collected + j - 1) % length) + 1]
       /\ Len(run.placedImages) <= run.imageIndex
       /\ run.imageIndex <= 100 * length
       /\ Len(run.placedImages) <= 100 * length

\* the three-image list was packed: its first row ends in the middle of the
\* list (23 images) and the second row starts with the list's third image
C21_Witness ==
  /\ run.pc = "done"
  /\ run.allImages = Scenario
  /\ Len(run.placedImages) = 300
  /\ run.placedImages[24].id = "c"
  /\ run.placedImages[24].x = 0

-----------------------------------------------------------------------------
(* Properties of the spatial index *)

\* the cells of a world copy, and a ring of cells around them
CellRange == (-1)..((12000 \div 400) + 1)

\* img is in the bucket of the index under key
InBucket(index, key, img) ==
  key \in DOMAIN index /\ \E j \in DOMAIN index[key] : index[key][j] = img

\* C22: in the index built from a layout, placed image img is in the bucket
\* of cell (cx, cy) if and only if floor(x / 400) <= cx <= floor((x + width) /
\* 400) and floor(y / 400) <= cy <= floor((y + height) / 400); and no bucket
\* holds an image twice.
C22_IndexCoversBoundingBox ==
  run.pc = "done" =>
    /\ \A i \in DOMAIN cachedLayout.value :
         LET img == cachedLayout.value[i]
         IN \A cx, cy \in CellRange :
              InBucket(spatialIndex.value, <<cx, cy>>, img)
                <=> /\ img.x \div 400 <= cx
                    /\ cx <= (img.x + img.width) \div 400
                    /\ img.y \div 400 <= cy
                    /\ cy <= (img.y + img.height) \div 400
    /\ \A key \in DOMAIN spatialIndex.value :
         /\ key \in CellRange \X CellRange
         /\ \A j, k \in DOMAIN spatialIndex.value[key] :
              spatialIndex.value[key][j] = spatialIndex.value[key][k] => j = k

\* an index was built in which one image lies in several buckets and one
\* bucket holds several images
C22_Witness ==
  /\ run.pc = "done"
  /\ \E i \in DOMAIN cachedLayout.value :
       /\ InBucket(spatialIndex.value, <<0, 0>>, cachedLayout.value[i])
       /\ InBucket(spatialIndex.value, <<1, 0>>, cachedLayout.value[i])
  /\ \E key \in DOMAIN spatialIndex.value : Len(spatialIndex.value[key]) >= 2

\* the list a layout was packed from and the index built from it
BuiltFrom(layout) == CHOOSE t \in Built : t.placedImages = layout

\* C23: whenever a layout is cached, the index is set and is the index built
\* from the cached layout, and cachedImageCount is the length of the list
\* the layout was packed from; and the results of a query are read from the
\* index of the layout the query got: they are what the loops return over
\* that index, and every image returned is an image of that layout.
C23_IndexMatchesLayout ==
  /\ ~cachedLayout.isNull =>
       /\ ~spatialIndex.isNull
       /\ spatialIndex.value = BuiltFrom(cachedLayout.value).index
       /\ cachedImageCount = Len(BuiltFrom(cachedLayout.value).allImages)
  /\ Queried =>
       /\ call.layout = cachedLayout.value
       /\ call.results = VisibleIn(BuiltFrom(call.layout).index, call.view)
       /\ \A i \in DOMAIN call.results :
            \E k \in DOMAIN call.layout : call.results[i].image = call.layout[k]

\* a query rebuilt layout and index, replacing the ones an earlier call had
\* cached, and returned images
C23_Witness ==
  /\ Queried /\ ~call.hit
  /\ ~first.isNull
  /\ first.value.layout # call.layout
  /\ call.results # << >>

\* C24 as claimed: a layout packed from a non-empty list with all aspect
\* ratios > 0 holds only images of width > 0 and height > 0.
C24_PositiveSizes ==
  (Called /\ ~call.hit /\ ValidList(call.allImages)) =>
    \A i \in DOMAIN call.layout :
      call.layout[i].width > 0 /\ call.layout[i].height > 0

\* C30: the placed images of a layout have pairwise distinct (x, y); and
\* every hit of a query, kept or dropped by the seenKeys test, is in the
\* results as the very same entry (same placed image, same render position):
\* the key merges only repeated hits of one instance.
C30_DistinctPositions ==
  /\ Called =>
       \A i, j \in DOMAIN call.layout :
         (call.layout[i].x = call.layout[j].x /\ call.layout[i].y = call.layout[j].y)
           => i = j
  /\ Queried =>
       LET hits == AllHits(spatialIndex.value, call.view)
       IN \A k \in DOMAIN hits :
            \E r \in DOMAIN call.results :
              /\ call.results[r].image = hits[k].image
              /\ call.results[r].renderX = hits[k].renderX
              /\ call.results[r].renderY = hits[k].renderY

\* a query whose seenKeys test dropped a hit and whose results hold two
\* different placed images of one world copy with the same x
C30_Witness ==
  /\ Queried
  /\ Len(AllHits(spatialIndex.value, call.view)) > Len(call.results)
  /\ \E i, j \in DOMAIN call.results :
       /\ call.results[i].image.x = call.results[j].image.x
       /\ call.results[i].image.y # call.results[j].image.y
       /\ call.results[i].renderX = call.results[j].renderX

\* C25: the layout the prerender script packs is the layout the application
\* packs from the same list on a cold cache, image by image; and every image
\* getInitialVisibleImages(layout, 800, 900) selects is in the results of the
\* application's getVisibleImages(0, 0, 800, 900, images), rendered at its
\* own (x, y).
C25_PrerenderMatchesRuntime ==
  /\ run.pc \in {"select", "html"} =>
       run.placedImages = Rebuild(run.allImages).placedImages
  /\ (run.pc = "html" /\ Queried) =>
       /\ ~call.hit
       /\ call.layout = run.placedImages
       /\ \A i \in DOMAIN run.selected :
            \E r \in DOMAIN call.results :
              /\ call.results[r].image = run.selected[i]
              /\ call.results[r].renderX = run.selected[i].x
              /\ call.results[r].renderY = run.selected[i].y

\* the script selected six images in three rows of the list of the scenario,
\* a small part of its layout, and the application has mounted
C25_Witness ==
  /\ run.pc = "html" /\ Queried
  /\ run.allImages = Scenario
  /\ Cardinality({ run.selected[i].y : i \in DOMAIN run.selected }) = 3
  /\ Len(run.selected) = 6
  /\ Len(run.placedImages) > Len(run.selected)

\* the callbacks of kind fn on the browser's list
CallbacksOf(br, fn) ==
  { br.callbacks[i] : i \in { k \in DOMAIN br.callbacks : br.callbacks[k].fn = fn } }

\* the pan after the first fast drag to the right, before any inertia
DraggedPanX == 60 * (200000 + 1750 * 100)

\* C26: at most one tick of an inertia loop is requested at a time, and it is
\* the one animationFrameRef names; while the pointer is down (from a
\* pointer-down to the following pointer-up) none is requested; a pointer-down
\* leaves none requested; and while the pointer is down the pan changes only
\* in pointer-move steps.
C26_OneInertiaLoop ==
  /\ [](/\ Cardinality(CallbacksOf(browser, "tick")) <= 1
        /\ \A cb \in CallbacksOf(browser, "tick") : canvas.animationFrameRef = cb.handle
        /\ canvas.animationFrameRef # 0 =>
             \E cb \in CallbacksOf(browser, "tick") : cb.handle = canvas.animationFrameRef
        /\ ~browser.released => CallbacksOf(browser, "tick") = {})
  /\ [][/\ browser'.downs # browser.downs =>
             (CallbacksOf(browser', "tick") = {} /\ canvas'.animationFrameRef = 0)
        /\ (~browser.released /\ canvas'.panRef # canvas.panRef) =>
             browser'.moves = browser.moves + 1]_vars

\* an inertia loop moved the pan, a pointer-down cancelled it, and a frame ran
\* while the pointer was down: the sync requested by the last tick has fired
C26_Witness ==
  /\ canvas.isDragging
  /\ browser.downs = 2
  /\ canvas.panRef.x > DraggedPanX
  /\ canvas.syncStateRef = 0
  /\ canvas.panPosition = canvas.panRef

C29_InertiaStops ==
  /\ [][/\ (canvas.animationFrameRef = 0 /\ canvas'.animationFrameRef # 0) =>
             /\ canvas.isDragging /\ ~canvas'.isDragging
             /\ \/ Abs(canvas.velocity.x) > 50000
                \/ Abs(canvas.velocity.y) > 50000
        /\ \A cb \in CallbacksOf(browser, "tick") :
             (/\ browser'.downs = browser.downs
              /\ \A next \in CallbacksOf(browser', "tick") : next.handle # cb.handle) =>
               LET vx == IF cb.vx >= 0 THEN (cb.vx * 95) \div 100
                         ELSE -(((-cb.vx) * 95) \div 100)
                   vy == IF cb.vy >= 0 THEN (cb.vy * 95) \div 100
                         ELSE -(((-cb.vy) * 95) \div 100)
               IN IF Abs(vx) < 500 /\ Abs(vy) < 500
                  THEN /\ CallbacksOf(browser', "tick") = {}
                       /\ canvas'.animationFrameRef = 0
                       /\ canvas'.syncStateRef # 0
                       /\ canvas'.panRef = canvas.panRef
                  ELSE /\ \E next \in CallbacksOf(browser', "tick") :
                            next.vx = vx /\ next.vy = vy
                       /\ canvas'.panRef = Point(canvas.panRef.x + vx * 16,
                                                 canvas.panRef.y + vy * 16)
        /\ (CallbacksOf(browser, "tick") = {} /\ canvas'.panRef # canvas.panRef) =>
             browser'.moves = browser.moves + 1]_vars
  /\ (canvas.animationFrameRef # 0) ~> (canvas.animationFrameRef = 0)

\* a loop started by the one pointer-up of the behaviour ran until its
\* velocity fell below 0.5 px/s and stopped by itself
C29_Witness ==
  /\ browser.downs = 1
  /\ ~canvas.isDragging
  /\ canvas.animationFrameRef = 0
  /\ browser.handle > 100
  /\ canvas.panRef.y > DraggedPanX

\* C28: hasDragged is set exactly when, since the most recent pointer-down
\* and before the pointer-up that followed it, a pointer-move arrived farther
\* than 5 px (Manhattan) from where the pointer went down; the lightbox opens
\* only while no such move was seen; and outside a drag (before a
\* pointer-down or after a pointer-up) the pan changes only by a tick of a
\* running inertia loop, never by a pointer-move.
C28_ClickVersusDrag ==
  /\ [](canvas.hasDragged <=> browser.farMove)
  /\ [][/\ (canvas.lightboxImage.isNull /\ ~canvas'.lightboxImage.isNull) =>
             ~browser.farMove
        /\ (browser.released /\ canvas'.panRef # canvas.panRef) =>
             (CallbacksOf(browser, "tick") # {} /\ browser'.moves = browser.moves)]_vars

\* after a drag of more than 5 px, a second pointer-down has reset the flag
\* and the lightbox is open
C28_Witness ==
  /\ ~canvas.lightboxImage.isNull
  /\ browser.downs = 2
  /\ browser.moves = 1
  /\ canvas.panRef = Point(3 * (200000 + 1750 * 100), 3 * (200000 + 1750 * 100))
  /\ ~canvas.hasDragged

====
